---- MODULE Spec2Model ----
(***************************************************************************)
(* State-machine model of the ZIP explorer's archive reader                *)
(* (src/zip_manager.py) together with the two front ends that drive it:    *)
(* the console menus (src/menu_system.py), which call the reader           *)
(* synchronously, and the Tk window (src/ui_main.py), which runs it on a   *)
(* worker thread next to the Cancel button.                                *)
(*                                                                         *)
(* One archive, "sample.zip", lives on disk; its members are records       *)
(* [filename, kind].  kind "file" is a stored file, "enc" a file encrypted *)
(* with ArchivePassword, "dir" a directory marker.  Member names within    *)
(* one archive are distinct.  Python's None is the string "None".          *)
(*                                                                         *)
(* The archive writer (create_zip_archive) is modelled next to the reader: *)
(* it walks a source tree and writes sample.zip anew, through zipfile      *)
(* without a password and through pyminizip with one.  Paths of the source *)
(* tree and the names of created members are sequences of components.      *)
(***************************************************************************)
EXTENDS Integers, Sequences, FiniteSets, TLC

\* ---------------------------------------------------------------- bounds
MaxMembers == 2     \* members in the archive on disk
MaxSel == 3         \* length of an index list given to extract_selected_files
MaxSize == 9        \* sizes of the entries whose compression ratio is computed
MaxIterations == 3  \* turns of the menu loop

\* ---------------------------------------------------------------- inputs
None == "None"
ArchivePassword == "secret"
Passwords == {None, "secret", "wrong"}
\* Passwords given to a listing: also a wrong password whose ZipCrypto check
\* byte happens to match (one wrong password in 256 does), so that the
\* member is decrypted to garbage instead of being refused.
ListPasswords == Passwords \cup {"collide"}
ZipPaths == {"sample.zip", "missing.zip", "notzip.zip"}
Destinations == {"out", "uncreatable"}
Kinds == {"file", "enc", "dir"}
NameOrders == {"asc", "desc"}
Frontends == {"cli", "gui"}

KindSeqs == UNION {[1..n -> Kinds] : n \in 0..MaxMembers}

\* The central directory of an archive whose members have the kinds ks;
\* the names are stored in ascending or in descending order.
MakeArchive(ks, order) ==
    [i \in 1..Len(ks) |->
        [filename  |-> IF order = "asc" THEN i ELSE Len(ks) + 1 - i,
         kind      |-> ks[i],
         file_size |-> IF ks[i] = "dir" THEN 0 ELSE 10 * i]]

Archives == {MakeArchive(ks, o) : ks \in KindSeqs, o \in NameOrders}

\* Index lists: strictly increasing, as both front ends produce them (a set
\* of console indices, the selected rows of the tree), over a range with
\* indices below and above every archive position.
IndexLists ==
    {s \in UNION {[1..n -> (-1)..MaxMembers] : n \in 0..MaxSel} :
        \A i \in 1..(Len(s) - 1) : s[i] < s[i + 1]}

\* ---------------------------------------------------------------- state
VARIABLES
    archive,            \* central directory of sample.zip (on disk)
    frontend,           \* which program runs: menu_system.py or ui_main.py
    current_zip_path,   \* ZipManager.current_zip_path
    current_zip_info,   \* ZipManager.current_zip_info (<<>> while the path is None)
    password,           \* ZipManager.password
    op,                 \* the reader operation in progress / last finished
    pc,                 \* "idle", "loop" (inside the member loop), "done"
    zip_path,           \* argument zip_path of the operation
    extract_to,         \* argument extract_to
    pwd,                \* argument password
    indices,            \* argument indices
    work,               \* files_to_extract / valid_indices (0-based positions)
    pos,                \* 1-based position of the loop in work
    extracted_count,    \* local extracted_count
    result,             \* "none", "True", "False", "None", "list", "TypeError"
    listing,            \* the list returned by list_zip_contents
    dir_created,        \* the destination directory exists
    opened,             \* the archive was opened by this operation
    disk,               \* names of the files written under the destination
    log,                \* what the operation did and printed, in order
    operation_cancelled,\* ModernZipManagerUI.operation_cancelled
    cancel_button,      \* state of the Cancel button: "normal" / "disabled"
    status_var,         \* status line of the window
    ui_zip_path,        \* ModernZipManagerUI.current_zip_path
    zip_contents,       \* ModernZipManagerUI.zip_contents
    worker,             \* GUI extraction worker: "none", "started", "finished"
    cancel_at,          \* members attempted when Cancel was pressed, -1 if not
    source,             \* the filesystem at the source path given to create
    destination,        \* who wrote sample.zip last, and how many files failed
    handles,            \* zipfile.ZipFile objects that are open
    tree,               \* rows of the Treeview: [num, filename]
    selected_items,     \* ModernZipManagerUI.selected_items
    loaders,            \* the load_worker threads: position and locals
    extractors,         \* the extract_worker threads: position and arguments
    running,            \* MenuSystem.running
    menu_pc,            \* where MenuSystem.run is
    iterations,         \* turns of the menu loop begun so far
    prompts,            \* times the option prompt was reached
    choice              \* the option read last

session == <<current_zip_path, current_zip_info, password>>
args == <<zip_path, extract_to, pwd, indices>>
locals == <<work, pos, extracted_count>>
effects == <<dir_created, opened, disk, log>>
gui == <<operation_cancelled, cancel_button, status_var, ui_zip_path,
         zip_contents, worker, cancel_at>>
writer == <<source, destination>>
view == <<tree, selected_items>>
threads == <<loaders, extractors>>
menu == <<running, menu_pc, iterations, prompts, choice>>
vars == <<archive, frontend, session, op, pc, args, locals, result, listing,
          effects, gui, writer, handles, view, threads, menu>>

\* The worker threads of the window that can be alive at the same time.
Workers == {1, 2}

\* A load_worker that has not been started.
IdleLoader ==
    [pc |-> "none", file_path |-> None, password |-> None, contents |-> <<>>]

\* An extract_worker that has not been started; cancel_requested: Cancel
\* was pressed while this worker was running.
IdleExtractor ==
    [pc |-> "none", selected_only |-> FALSE, extract_dir |-> None,
     cancel_requested |-> FALSE]

\* ---------------------------------------------------------------- source tree
\* The source path handed to create, and the regular files below it in the
\* order os.walk yields them (the files of a directory before those of its
\* subdirectories).  Two of the files have the same base name.
SourceDir == <<"data">>
WalkPaths == << <<"data", "a">>, <<"data", "sub", "a">>, <<"data", "sub", "b">> >>
Sizes == {0, 7}
Levels == {6, 9}
CreatePasswords == {None, ArchivePassword}

\* No source path: the reader's programs never look at it.
NoSource == [path |-> <<>>, kind |-> "missing", files |-> <<>>]

\* The directory trees: any selection of the walk paths, each file of any
\* size; the empty selection is a directory without files.
Trees ==
    {[path |-> SourceDir, kind |-> "dir", files |-> fs] :
        fs \in {t \in UNION {[1..n -> [path : {WalkPaths[i] : i \in 1..Len(WalkPaths)},
                                         file_size : Sizes]] :
                                 n \in 0..Len(WalkPaths)} :
                  \A i \in 1..(Len(t) - 1) :
                     \E a, b \in 1..Len(WalkPaths) :
                        /\ a < b
                        /\ t[i].path = WalkPaths[a]
                        /\ t[i + 1].path = WalkPaths[b]}}

\* A source path that is one regular file.
SingleFiles ==
    {[path |-> WalkPaths[1], kind |-> "file",
      files |-> <<[path |-> WalkPaths[1], file_size |-> sz]>>] : sz \in Sizes}

Sources == Trees \cup SingleFiles \cup {[NoSource EXCEPT !.path = SourceDir]}

\* The destination before any create of the session: sample.zip as found.
Untouched == [by |-> "nobody", failures |-> 0]

\* ---------------------------------------------------------------- helpers
\* Python truthiness of an Optional[str] password ("if password:").
Truthy(p) == p # None

\* zipfile.ZipInfo.is_dir()
is_dir(m) == m.kind = "dir"

\* zipfile.ZipFile(zip_path, 'r'): what opening the path does.
OpenZip(zp) ==
    CASE zp = "sample.zip"  -> "ok"
      [] zp = "missing.zip" -> "FileNotFoundError"
      [] zp = "notzip.zip"  -> "BadZipFile"
      [] zp = "other.zip"   -> "ok"

\* ZipFile.read of one member with password pw: what the call does.  An
\* encrypted member is refused with RuntimeError without its password; with
\* a wrong password that passes the check byte, and on a member whose
\* deflate stream is corrupt, the decompressor raises zlib.error.
ReadOutcome(m, pw) ==
    CASE m.kind = "corrupt" -> "zlib.error"
      [] m.kind = "enc" /\ pw = ArchivePassword -> "ok"
      [] m.kind = "enc" /\ pw = "collide" -> "zlib.error"
      [] m.kind = "enc" -> "RuntimeError"
      [] OTHER -> "ok"

\* ZipFile.read / ZipFile.extract of one member with password pw succeeds.
ReadOk(m, pw) == ReadOutcome(m, pw) = "ok"

\* ZipInfo.__init__: the wrapper keeps the name, the uncompressed size and
\* the directory flag.
ZipInfo(m) ==
    [filename |-> m.filename, file_size |-> m.file_size, is_dir |-> is_dir(m)]

\* create_directory with the exception swallowed and True returned.
create_directory_AlwaysTrue(dest) == TRUE

\* FileUtils.create_directory: mkdir(parents=True, exist_ok=True), any
\* exception turned into False.
create_directory(dest) == dest # "uncreatable"

\* log entries
Attempt(idx, ok)   == [ev |-> "attempt",  x |-> idx, y |-> IF ok THEN 1 ELSE 0]
Progress(cur, tot) == [ev |-> "progress", x |-> cur, y |-> tot]
SkipDir(idx)       == [ev |-> "skip_dir", x |-> idx, y |-> 0]
Error(idx)         == [ev |-> "error",    x |-> idx, y |-> 0]
Read(idx, ok)      == [ev |-> "read",     x |-> idx, y |-> IF ok THEN 1 ELSE 0]
Events(kind) == SelectSeq(log, LAMBDA e : e.ev = kind)

\* Python list indexing, 0-based, negative indices counting from the end.
At(list, i) == IF i >= 0 THEN list[i + 1] ELSE list[Len(list) + i + 1]

\* 0-based positions 0..n-1 as a sequence
Positions(n) == [i \in 1..n |-> i - 1]

\* ---------------------------------------------------------------- list
\* FileList without the test of the password: every non-directory member is
\* read, with or without a password.
FileList_ProbeAlways(arch, pw) ==
    LET keep(m) == is_dir(m) \/ ReadOk(m, pw)
        kept == SelectSeq(arch, keep)
    IN  [i \in 1..Len(kept) |-> ZipInfo(kept[i])]

\* FileList sorted by name before it is returned.
FileList_SortedByName(arch, pw) ==
    LET keep(m) == ~(Truthy(pw) /\ ~is_dir(m)) \/ ReadOk(m, pw)
        kept == SelectSeq(arch, keep)
        names == {kept[i].filename : i \in 1..Len(kept)}
        rank(n) == Cardinality({k \in names : k <= n})
        member(r) == CHOOSE m \in {kept[i] : i \in 1..Len(kept)} :
                        rank(m.filename) = r
    IN  [i \in 1..Len(kept) |-> ZipInfo(member(i))]

\* list_zip_contents, lines 53-62: the file_list built from infolist().
FileList(arch, pw) ==
    LET keep(m) == ~(Truthy(pw) /\ ~is_dir(m)) \/ ReadOk(m, pw)
        kept == SelectSeq(arch, keep)
    IN  [i \in 1..Len(kept) |-> ZipInfo(kept[i])]

\* list_zip_contents, lines 56-62: the handler inside the loop catches
\* RuntimeError and BadZipFile only; any other exception of a read leaves
\* the loop for the handler at line 79, which returns None.
ListAborts(arch, pw) ==
    /\ Truthy(pw)
    /\ \E i \in 1..Len(arch) :
          /\ ~is_dir(arch[i])
          /\ ReadOutcome(arch[i], pw) \notin {"ok", "RuntimeError", "BadZipFile"}

\* list_zip_contents, lines 54-58: the reads the loop makes, in order: one per
\* non-directory member when a password was given, up to and including the
\* first read whose exception leaves the loop.
ReadLog(arch, pw) ==
    LET files == SelectSeq(Positions(Len(arch)), LAMBDA i : ~is_dir(At(arch, i)))
        caught(k) == ReadOutcome(At(arch, files[k]), pw)
                        \in {"ok", "RuntimeError", "BadZipFile"}
        stops == {k \in 1..Len(files) : ~caught(k)}
        n == IF ~Truthy(pw) THEN 0
             ELSE IF stops = {} THEN Len(files)
             ELSE CHOOSE k \in stops : \A j \in stops : k <= j
    IN  [k \in 1..n |-> Read(files[k], ReadOk(At(arch, files[k]), pw))]

\* list_zip_contents recording the path when it is called instead of after the
\* member loop: a failed listing then leaves a session with a new path.
list_zip_contents_PathFirst(zp, pw) ==
    /\ frontend = "cli" /\ pc = "idle"
    /\ op' = "list" /\ pc' = "done"
    /\ zip_path' = zp /\ pwd' = pw
    /\ IF OpenZip(zp) = "ok" /\ ~ListAborts(archive, pw)
         THEN /\ current_zip_path' = zp
              /\ current_zip_info' = FileList(archive, pw)
              /\ password' = pw
              /\ result' = "list"
              /\ listing' = FileList(archive, pw)
              /\ opened' = TRUE
         ELSE /\ current_zip_path' = zp
              /\ UNCHANGED <<current_zip_info, password>>
              /\ result' = "None"
              /\ listing' = <<>>
              /\ opened' = (OpenZip(zp) = "ok")
    /\ log' = IF OpenZip(zp) = "ok" THEN ReadLog(archive, pw) ELSE <<>>
    /\ UNCHANGED <<menu, threads, handles, view, archive, frontend, writer, extract_to, indices, locals,
                   dir_created, disk, gui>>

\* ZipManager.list_zip_contents called from the console menus.
list_zip_contents(zp, pw) ==
    /\ frontend = "cli" /\ pc = "idle"
    /\ op' = "list" /\ pc' = "done"
    /\ zip_path' = zp /\ pwd' = pw
    /\ IF OpenZip(zp) = "ok" /\ ~ListAborts(archive, pw)
         THEN /\ current_zip_path' = zp
              /\ current_zip_info' = FileList(archive, pw)
              /\ password' = pw
              /\ result' = "list"
              /\ listing' = FileList(archive, pw)
              /\ opened' = TRUE
         ELSE /\ UNCHANGED session
              /\ result' = "None"
              /\ listing' = <<>>
              /\ opened' = (OpenZip(zp) = "ok")
    /\ log' = IF OpenZip(zp) = "ok" THEN ReadLog(archive, pw) ELSE <<>>
    /\ UNCHANGED <<menu, threads, handles, view, archive, frontend, writer, extract_to, indices, locals,
                   dir_created, disk, gui>>

\* ---------------------------------------------------------------- extract all
\* extract_all_files, line 139: the non-directory members, in archive order.
FilesToExtract(arch) ==
    SelectSeq(Positions(Len(arch)), LAMBDA i : ~is_dir(At(arch, i)))

\* extract_all_files, lines 128-146: create the destination, open the
\* archive, collect the files; every early return ends the operation.
extract_all_begin(zp, dest, pw) ==
    LET created == create_directory(dest)
        open_ok == created /\ OpenZip(zp) = "ok"
        files   == FilesToExtract(archive)
    IN
    /\ frontend = "cli" /\ pc = "idle"
    /\ op' = "extract_all"
    /\ zip_path' = zp /\ extract_to' = dest /\ pwd' = pw
    /\ dir_created' = created
    /\ opened' = open_ok
    /\ work' = IF open_ok THEN files ELSE <<>>
    /\ pos' = IF open_ok /\ Len(files) > 0 THEN 1 ELSE 0
    /\ pc' = IF open_ok /\ Len(files) > 0 THEN "loop" ELSE "done"
    /\ result' = IF ~open_ok THEN "False"
                 ELSE IF Len(files) = 0 THEN "True" ELSE "none"
    /\ handles' = IF pc' = "loop" THEN handles + 1 ELSE handles
    /\ UNCHANGED <<menu, threads, view, archive, frontend, writer, session, indices, extracted_count,
                   listing, disk, log, gui>>

\* extract_all_member with the try/except around the whole loop instead of
\* inside it: the first failure leaves the loop.
extract_all_member_AbortOnFailure(io_ok) ==
    LET idx == work[pos]
        m   == At(archive, idx)
        ok  == io_ok /\ ReadOk(m, pwd)
    IN
    /\ op = "extract_all" /\ pc = "loop" /\ pos <= Len(work)
    /\ IF ok
         THEN /\ extracted_count' = extracted_count + 1
              /\ disk' = disk \cup {m.filename}
              /\ log' = log \o <<Attempt(idx, TRUE),
                                 Progress(extracted_count + 1, Len(work))>>
              /\ pos' = pos + 1
         ELSE /\ UNCHANGED <<extracted_count, disk>>
              /\ log' = log \o <<Attempt(idx, FALSE), Error(idx)>>
              /\ pos' = Len(work) + 1
    /\ UNCHANGED <<menu, threads, handles, view, archive, frontend, writer, session, op, pc, args, work, result,
                   listing, dir_created, opened, gui>>

\* extract_all_member falling back on the password of the session when it is
\* called without one.
extract_all_member_SessionPassword(io_ok) ==
    LET idx == work[pos]
        m   == At(archive, idx)
        ok  == io_ok /\ ReadOk(m, IF Truthy(pwd) THEN pwd ELSE password)
    IN
    /\ op = "extract_all" /\ pc = "loop" /\ pos <= Len(work)
    /\ IF ok
         THEN /\ extracted_count' = extracted_count + 1
              /\ disk' = disk \cup {m.filename}
              /\ log' = log \o <<Attempt(idx, TRUE),
                                 Progress(extracted_count + 1, Len(work))>>
         ELSE /\ UNCHANGED <<extracted_count, disk>>
              /\ log' = log \o <<Attempt(idx, FALSE), Error(idx)>>
    /\ pos' = pos + 1
    /\ UNCHANGED <<menu, threads, handles, view, archive, frontend, writer, session, op, pc, args, work, result,
                   listing, dir_created, opened, gui>>


\* extract_all_files, lines 150-161: one turn of the loop.  io_ok = FALSE is
\* a failure of this member that has nothing to do with the password (corrupt
\* entry, filesystem error); every failure is caught inside the loop.
extract_all_member(io_ok) ==
    LET idx == work[pos]
        m   == At(archive, idx)
        ok  == io_ok /\ ReadOk(m, pwd)
    IN
    /\ op = "extract_all" /\ pc = "loop" /\ pos <= Len(work)
    /\ IF ok
         THEN /\ extracted_count' = extracted_count + 1
              /\ disk' = disk \cup {m.filename}
              /\ log' = log \o <<Attempt(idx, TRUE),
                                 Progress(extracted_count + 1, Len(work))>>
         ELSE /\ UNCHANGED <<extracted_count, disk>>
              /\ log' = log \o <<Attempt(idx, FALSE), Error(idx)>>
    /\ pos' = pos + 1
    /\ UNCHANGED <<menu, threads, handles, view, archive, frontend, writer, session, op, pc, args, work, result,
                   listing, dir_created, opened, gui>>

\* extract_all_end returning "every file was extracted".
extract_all_end_AllOrNothing ==
    /\ op = "extract_all" /\ pc = "loop" /\ pos > Len(work)
    /\ result' = IF extracted_count = Len(work) THEN "True" ELSE "False"
    /\ pc' = "done"
    /\ handles' = handles - 1
    /\ UNCHANGED <<menu, threads, view, archive, frontend, writer, session, op, args, locals, listing,
                   effects, gui>>

\* extract_all_files, lines 163-165: after the loop.
extract_all_end ==
    /\ op = "extract_all" /\ pc = "loop" /\ pos > Len(work)
    /\ result' = IF extracted_count > 0 THEN "True" ELSE "False"
    /\ pc' = "done"
    /\ handles' = handles - 1
    /\ UNCHANGED <<menu, threads, view, archive, frontend, writer, session, op, args, locals, listing,
                   effects, gui>>

\* ---------------------------------------------------------------- extract selected
\* ValidIndices without the lower bound of the range test.
ValidIndices_NoLowerBound(ixs, file_list) ==
    LET max_index == Len(file_list) - 1
    IN  SelectSeq(ixs, LAMBDA i : i <= max_index)

\* extract_selected_files, lines 196-197.
ValidIndices(ixs, file_list) ==
    LET max_index == Len(file_list) - 1
    IN  SelectSeq(ixs, LAMBDA i : 0 <= i /\ i <= max_index)

\* extract_selected_begin whose return for an empty selection leaves the
\* archive object open.
extract_selected_begin_LeaveOpen(zp, dest, ixs, pw) ==
    LET created == create_directory(dest)
        open_ok == created /\ OpenZip(zp) = "ok"
        valid_indices == ValidIndices(ixs, archive)
    IN
    /\ frontend = "cli" /\ pc = "idle"
    /\ op' = "extract_selected"
    /\ zip_path' = zp /\ extract_to' = dest /\ pwd' = pw /\ indices' = ixs
    /\ dir_created' = created
    /\ opened' = open_ok
    /\ work' = IF open_ok THEN valid_indices ELSE <<>>
    /\ pos' = IF open_ok /\ Len(valid_indices) > 0 THEN 1 ELSE 0
    /\ pc' = IF open_ok /\ Len(valid_indices) > 0 THEN "loop" ELSE "done"
    /\ result' = IF open_ok /\ Len(valid_indices) > 0 THEN "none" ELSE "False"
    /\ handles' = IF open_ok THEN handles + 1 ELSE handles
    /\ UNCHANGED <<menu, threads, view, archive, frontend, writer, session, extracted_count, listing,
                   disk, log, gui>>


\* extract_selected_files, lines 183-203.
extract_selected_begin(zp, dest, ixs, pw) ==
    LET created == create_directory(dest)
        open_ok == created /\ OpenZip(zp) = "ok"
        valid_indices == ValidIndices(ixs, archive)
    IN
    /\ frontend = "cli" /\ pc = "idle"
    /\ op' = "extract_selected"
    /\ zip_path' = zp /\ extract_to' = dest /\ pwd' = pw /\ indices' = ixs
    /\ dir_created' = created
    /\ opened' = open_ok
    /\ work' = IF open_ok THEN valid_indices ELSE <<>>
    /\ pos' = IF open_ok /\ Len(valid_indices) > 0 THEN 1 ELSE 0
    /\ pc' = IF open_ok /\ Len(valid_indices) > 0 THEN "loop" ELSE "done"
    /\ result' = IF open_ok /\ Len(valid_indices) > 0 THEN "none" ELSE "False"
    /\ handles' = IF pc' = "loop" THEN handles + 1 ELSE handles
    /\ UNCHANGED <<menu, threads, view, archive, frontend, writer, session, extracted_count, listing,
                   disk, log, gui>>

\* file_list[index] (line 208): defined for -len <= index < len; any other
\* index raises IndexError, which leaves the loop for the handler at 239.
Subscriptable(list, i) == -Len(list) <= i /\ i < Len(list)

\* extract_selected_member without the is_dir() test: a directory entry is
\* handed to extract() like a file (which creates the directory and counts).
extract_selected_member_NoDirSkip(io_ok) ==
    LET index == work[pos]
        file_info == At(archive, index)
        ok == io_ok /\ ReadOk(file_info, pwd)
    IN
    /\ op = "extract_selected" /\ pc = "loop" /\ pos <= Len(work)
    /\ IF ~Subscriptable(archive, index)
         THEN /\ result' = "False" /\ pc' = "done"
              /\ UNCHANGED <<extracted_count, disk, log, pos>>
         ELSE
         /\ IF ok
              THEN /\ extracted_count' = extracted_count + 1
                   /\ disk' = disk \cup {file_info.filename}
                   /\ log' = log \o <<Attempt(index, TRUE),
                                      Progress(pos, Len(work))>>
              ELSE /\ UNCHANGED <<extracted_count, disk>>
                   /\ log' = log \o <<Attempt(index, FALSE), Error(index)>>
         /\ pos' = pos + 1
         /\ UNCHANGED <<result, pc>>
    /\ handles' = IF pc' = "done" THEN handles - 1 ELSE handles
    /\ UNCHANGED <<menu, threads, view, archive, frontend, writer, session, op, args, work, listing,
                   dir_created, opened, gui>>

\* extract_selected_files, lines 207-224: one turn of the loop.
extract_selected_member(io_ok) ==
    LET index == work[pos]
        file_info == At(archive, index)
        ok == io_ok /\ ReadOk(file_info, pwd)
    IN
    /\ op = "extract_selected" /\ pc = "loop" /\ pos <= Len(work)
    /\ IF ~Subscriptable(archive, index)
         THEN /\ result' = "False" /\ pc' = "done"
              /\ UNCHANGED <<extracted_count, disk, log, pos>>
         ELSE
         /\ IF is_dir(file_info)
              THEN /\ log' = Append(log, SkipDir(index))
                   /\ UNCHANGED <<extracted_count, disk>>
              ELSE IF ok
              THEN /\ extracted_count' = extracted_count + 1
                   /\ disk' = disk \cup {file_info.filename}
                   /\ log' = log \o <<Attempt(index, TRUE),
                                      Progress(pos, Len(work))>>
              ELSE /\ UNCHANGED <<extracted_count, disk>>
                   /\ log' = log \o <<Attempt(index, FALSE), Error(index)>>
         /\ pos' = pos + 1
         /\ UNCHANGED <<result, pc>>
    /\ handles' = IF pc' = "done" THEN handles - 1 ELSE handles
    /\ UNCHANGED <<menu, threads, view, archive, frontend, writer, session, op, args, work, listing,
                   dir_created, opened, gui>>

\* extract_selected_end returning success whenever the loop was completed.
extract_selected_end_AlwaysTrue ==
    /\ op = "extract_selected" /\ pc = "loop" /\ pos > Len(work)
    /\ result' = "True"
    /\ pc' = "done"
    /\ handles' = handles - 1
    /\ UNCHANGED <<menu, threads, view, archive, frontend, writer, session, op, args, locals, listing,
                   effects, gui>>

\* extract_selected_end with the early return of extract_all_files: success
\* when no file is among the valid indices.
extract_selected_end_TrueWithoutFiles ==
    /\ op = "extract_selected" /\ pc = "loop" /\ pos > Len(work)
    /\ result' = IF extracted_count > 0
                    \/ \A k \in 1..Len(work) : is_dir(At(archive, work[k]))
                  THEN "True" ELSE "False"
    /\ pc' = "done"
    /\ handles' = handles - 1
    /\ UNCHANGED <<menu, threads, view, archive, frontend, writer, session, op, args,
                   locals, listing, effects, gui>>

\* extract_selected_files, lines 226-228: after the loop.
extract_selected_end ==
    /\ op = "extract_selected" /\ pc = "loop" /\ pos > Len(work)
    /\ result' = IF extracted_count > 0 THEN "True" ELSE "False"
    /\ pc' = "done"
    /\ handles' = handles - 1
    /\ UNCHANGED <<menu, threads, view, archive, frontend, writer, session, op, args, locals, listing,
                   effects, gui>>

\* The operation has returned to its caller; the next one starts afresh,
\* with a fresh destination.
Return ==
    /\ frontend = "cli" /\ pc = "done"
    /\ op' = "idle" /\ pc' = "idle"
    /\ zip_path' = None /\ extract_to' = None /\ pwd' = None /\ indices' = <<>>
    /\ work' = <<>> /\ pos' = 0 /\ extracted_count' = 0
    /\ result' = "none" /\ listing' = <<>>
    /\ dir_created' = FALSE /\ opened' = FALSE /\ disk' = {} /\ log' = <<>>
    /\ UNCHANGED <<menu, threads, handles, view, archive, frontend, writer, session, gui>>

\* ---------------------------------------------------------------- window
\* check_password_needed with the outer handler answering False: only the
\* RuntimeError of the read makes the probe say that a password is needed.
check_password_needed_RuntimeErrorOnly(zp, arch) ==
    IF OpenZip(zp) # "ok" THEN FALSE
    ELSE LET files == FilesToExtract(arch)
         IN  IF Len(files) = 0 THEN FALSE
             ELSE ReadOutcome(At(arch, files[1]), None) = "RuntimeError"

\* _check_password_needed (ui_main.py) / check_password_needed
\* (menu_system.py): read the first non-directory member without a password.
check_password_needed(zp, arch) ==
    IF OpenZip(zp) # "ok" THEN TRUE
    ELSE LET files == FilesToExtract(arch)
         IN  IF Len(files) = 0 THEN FALSE
             ELSE ~ReadOk(At(arch, files[1]), None)

\* selected_items: the selected rows as positions in the tree, top down;
\* stale when the rows they name were deleted from the tree.
NoSelection == [rows |-> <<>>, stale |-> FALSE]

\* _populate_tree: row i + 1 carries the number i + 1 and the name of
\* contents[i].
Rows(contents) ==
    [i \in 1..Len(contents) |-> [num |-> i, filename |-> contents[i].filename]]

\* _populate_tree deletes the rows that were there.  Whether Tk then sends
\* <<TreeviewSelect>> (which empties selected_items) depends on its
\* version: a selection is either emptied or left naming deleted rows.
AfterRepopulate ==
    IF selected_items = NoSelection THEN {NoSelection}
    ELSE {NoSelection, [rows |-> <<>>, stale |-> TRUE]}

\* load_zip_file / load_worker: ask for a password when the probe says so
\* (answer = None: the dialog was cancelled), list the archive, show it.
load_zip_file(file_path, answer) ==
    LET needed == check_password_needed(file_path, archive)
        pw == IF needed THEN answer ELSE None
        cancelled == needed /\ answer = None
        ok == /\ ~cancelled /\ OpenZip(file_path) = "ok"
              /\ ~ListAborts(archive, pw)
        contents == FileList(archive, pw)
    IN
    /\ frontend = "gui"
    /\ IF ok
         THEN /\ current_zip_path' = file_path
              /\ current_zip_info' = contents
              /\ password' = pw
              /\ zip_contents' = contents
              /\ ui_zip_path' = file_path
              /\ tree' = Rows(contents)
              /\ selected_items' \in AfterRepopulate
              /\ status_var' = "Loaded"
         ELSE /\ UNCHANGED <<session, zip_contents, ui_zip_path, view>>
              /\ status_var' = IF cancelled THEN "Ready"
                               ELSE "Failed to load archive"
    /\ UNCHANGED <<menu, threads, handles, archive, frontend, writer, op, pc, args, locals, result, listing,
                   effects, operation_cancelled, cancel_button, worker,
                   cancel_at>>

\* extract_all + _extract_files_with_progress up to the thread start.
gui_extract_all(extract_dir) ==
    /\ frontend = "gui" /\ worker # "started"
    /\ ui_zip_path # None
    /\ operation_cancelled' = FALSE
    /\ cancel_button' = "normal"
    /\ worker' = "started"
    /\ cancel_at' = -1
    /\ op' = "extract_all" /\ pc' = "idle"
    /\ zip_path' = ui_zip_path /\ extract_to' = extract_dir
    /\ pwd' = None             \* lines 606-609: no password argument
    /\ result' = "none"
    /\ UNCHANGED <<menu, threads, handles, view, archive, frontend, writer,
                   session, indices, locals, listing,
                   effects, status_var, ui_zip_path, zip_contents>>

\* _cancel_operation: the Cancel button, clickable while it is enabled; the
\* request is made to every extract_worker running at that moment.
cancel_operation ==
    /\ frontend = "gui" /\ cancel_button = "normal"
    /\ operation_cancelled' = TRUE
    /\ cancel_button' = "disabled"
    /\ cancel_at' = Len(Events("attempt"))
    /\ extractors' =
          [w \in Workers |->
              IF extractors[w].pc = "running"
                THEN [extractors[w] EXCEPT !.cancel_requested = TRUE]
                ELSE extractors[w]]
    /\ UNCHANGED <<menu, loaders, handles, view, archive, frontend, writer, session, op, pc, args, locals, result,
                   listing, effects, status_var, ui_zip_path, zip_contents,
                   worker>>

\* log entry of the window: the index sent for a row and the name the row
\* displays
Sent(index, shown) == [ev |-> "sent", x |-> index, y |-> shown]

\* extract_worker, lines 595-599: the index of every selected row is the
\* number in its first column minus one.
SentIndices ==
    [k \in 1..Len(selected_items.rows) |->
        tree[selected_items.rows[k]].num - 1]

\* _on_search_changed: an empty term shows the whole listing again (if there
\* is one), any other term the entries whose name contains it; a term is
\* given by the names that contain it.
on_search_changed(term) ==
    LET filtered_contents ==
            SelectSeq(zip_contents, LAMBDA item : item.filename \in term)
    IN
    /\ frontend = "gui"
    /\ IF term = {}
         THEN IF zip_contents # <<>>
                THEN /\ tree' = Rows(zip_contents)
                     /\ selected_items' \in AfterRepopulate
                ELSE UNCHANGED view
         ELSE /\ tree' = Rows(filtered_contents)
              /\ selected_items' \in AfterRepopulate
    /\ UNCHANGED <<menu, threads, handles, archive, frontend, writer, session, op, pc, args,
                   locals, result, listing, effects, gui>>

\* _on_tree_select: the user selects rows of the tree.
on_tree_select(selected) ==
    /\ frontend = "gui"
    /\ \A k \in 1..Len(selected) : selected[k] \in 1..Len(tree)
    /\ \A k \in 1..(Len(selected) - 1) : selected[k] < selected[k + 1]
    /\ selected_items' = [rows |-> selected, stale |-> FALSE]
    /\ UNCHANGED <<menu, threads, handles, archive, frontend, writer, session, op, pc, args,
                   locals, result, listing, effects, gui, tree>>

\* extract_selected + _extract_files_with_progress up to the thread start.
gui_extract_selected(extract_dir) ==
    /\ frontend = "gui" /\ worker # "started"
    /\ selected_items # NoSelection
    /\ ui_zip_path # None
    /\ operation_cancelled' = FALSE
    /\ cancel_button' = "normal"
    /\ worker' = "started"
    /\ cancel_at' = -1
    /\ op' = "extract_selected" /\ pc' = "idle"
    /\ zip_path' = ui_zip_path /\ extract_to' = extract_dir
    /\ pwd' = None             \* lines 601-604: no password argument
    /\ indices' = <<>>
    /\ result' = "none"
    /\ log' = <<>>
    /\ UNCHANGED <<menu, threads, handles, view, archive, frontend, writer, session,
                   locals, listing, dir_created, opened, disk, status_var,
                   ui_zip_path, zip_contents>>

\* extract_worker: for a selection the indices are computed from the rows
\* (tree.item of a deleted row raises TclError); then the reader is called
\* with progress_callback=..., a keyword neither extract function has, so
\* the call raises TypeError before the reader runs; the worker's handler
\* reports either error.
extract_worker ==
    /\ frontend = "gui" /\ worker = "started"
    /\ IF op = "extract_selected"
         THEN IF selected_items.stale
                THEN /\ result' = "TclError"
                     /\ UNCHANGED <<indices, log>>
                ELSE /\ result' = "TypeError"
                     /\ indices' = SentIndices
                     /\ log' = [k \in 1..Len(SentIndices) |->
                                  Sent(SentIndices[k],
                                       tree[selected_items.rows[k]].filename)]
         ELSE /\ result' = "TypeError"
              /\ UNCHANGED <<indices, log>>
    /\ pc' = "done"
    /\ status_var' = "Extraction error"
    /\ cancel_button' = "disabled"
    /\ worker' = "finished"
    /\ UNCHANGED <<menu, threads, handles, view, archive, frontend, writer, session, op,
                   zip_path, extract_to, pwd, locals, listing, dir_created,
                   opened, disk, operation_cancelled, ui_zip_path,
                   zip_contents, cancel_at>>

\* ---------------------------------------------------------------- spec
Init ==
    /\ archive \in Archives
    /\ frontend \in Frontends
    /\ current_zip_path = None /\ current_zip_info = <<>> /\ password = None
    /\ op = "idle" /\ pc = "idle"
    /\ zip_path = None /\ extract_to = None /\ pwd = None /\ indices = <<>>
    /\ work = <<>> /\ pos = 0 /\ extracted_count = 0
    /\ result = "none" /\ listing = <<>>
    /\ dir_created = FALSE /\ opened = FALSE /\ disk = {} /\ log = <<>>
    /\ operation_cancelled = FALSE /\ cancel_button = "disabled"
    /\ status_var = "Ready" /\ ui_zip_path = None /\ zip_contents = <<>>
    /\ worker = "none" /\ cancel_at = -1
    /\ handles = 0
    /\ tree = <<>> /\ selected_items = NoSelection
    /\ loaders = [w \in Workers |-> IdleLoader]
    /\ extractors = [w \in Workers |-> IdleExtractor]
    /\ running = TRUE /\ menu_pc = "start"
    /\ iterations = 0 /\ prompts = 0 /\ choice = "none"
    /\ source = NoSource /\ destination = Untouched

Next ==
    \/ \E zp \in ZipPaths, pw \in ListPasswords : list_zip_contents(zp, pw)
    \/ \E zp \in ZipPaths, dest \in Destinations, pw \in Passwords :
          extract_all_begin(zp, dest, pw)
    \/ \E io_ok \in BOOLEAN : extract_all_member(io_ok)
    \/ extract_all_end
    \/ \E zp \in ZipPaths, dest \in Destinations, ixs \in IndexLists,
          pw \in Passwords :
          extract_selected_begin(zp, dest, ixs, pw)
    \/ \E io_ok \in BOOLEAN : extract_selected_member(io_ok)
    \/ extract_selected_end
    \/ Return
    \/ \E fp \in ZipPaths, answer \in ListPasswords : load_zip_file(fp, answer)
    \/ \E extract_dir \in Destinations : gui_extract_all(extract_dir)
    \/ cancel_operation
    \/ extract_worker

Spec == Init /\ [][Next]_vars

\* ---------------------------------------------------------------- view
\* The window with its search box and tree: load, search, select, extract
\* the selection.
SearchTerms == SUBSET (1..MaxMembers)
Selections ==
    {sel \in UNION {[1..n -> 1..MaxMembers] : n \in 0..MaxMembers} :
        \A k \in 1..(Len(sel) - 1) : sel[k] < sel[k + 1]}

InitView ==
    /\ Init
    /\ frontend = "gui"

NextView ==
    \/ \E answer \in {None, ArchivePassword} :
          load_zip_file("sample.zip", answer)
    \/ \E term \in SearchTerms : on_search_changed(term)
    \/ \E selected \in Selections : on_tree_select(selected)
    \/ \E extract_dir \in Destinations : gui_extract_selected(extract_dir)
    \/ extract_worker

SpecView == InitView /\ [][NextView]_vars

\* ---------------------------------------------------------------- load
\* Two load_worker threads of the window.  load_zip_file starts a thread per
\* call and nothing waits for the one before, so the statements of two
\* workers interleave; each assignment to an attribute of the window or of
\* the manager is a step of its own.

\* other.zip: a second valid archive, one plain file under a name no member
\* of sample.zip has.
OtherArchive == <<[filename |-> 0, kind |-> "file", file_size |-> 5]>>
ArchiveAt(zp) == IF zp = "other.zip" THEN OtherArchive ELSE archive
LoadPaths == {"sample.zip", "other.zip"}

Goto(w, label) == loaders' = [loaders EXCEPT ![w].pc = label]

\* load_zip_file, lines 395-396 and 423: the main thread starts a worker.
start_load_worker(w, file_path) ==
    /\ frontend = "gui" /\ loaders[w].pc \in {"none", "done"}
    /\ status_var' = "Loading archive..."
    /\ loaders' = [loaders EXCEPT ![w] =
                      [IdleLoader EXCEPT !.pc = "started",
                                         !.file_path = file_path]]
    /\ UNCHANGED <<menu, archive, frontend, session, op, pc, args, locals, result,
                   listing, effects, operation_cancelled, cancel_button,
                   ui_zip_path, zip_contents, worker, cancel_at, writer,
                   handles, view, extractors>>

\* load_worker, lines 401-408, and list_zip_contents, lines 46-62: the
\* probe, the dialog, and the listing up to the finished file_list; a
\* cancelled dialog or a failed listing ends the worker.
load_worker_list(w, answer) ==
    LET file_path == loaders[w].file_path
        arch == ArchiveAt(file_path)
        needed == check_password_needed(file_path, arch)
        pw == IF needed THEN answer ELSE None
        cancelled == needed /\ answer = None
        ok == ~cancelled /\ ~ListAborts(arch, pw)
    IN
    /\ frontend = "gui" /\ loaders[w].pc = "started"
    /\ IF ok
         THEN /\ loaders' = [loaders EXCEPT ![w].pc = "set_path",
                                            ![w].password = pw,
                                            ![w].contents = FileList(arch, pw)]
              /\ handles' = handles + 1
              /\ UNCHANGED status_var
         ELSE /\ Goto(w, "done")
              /\ status_var' = IF cancelled THEN "Ready"
                               ELSE "Failed to load archive"
              /\ UNCHANGED handles
    /\ UNCHANGED <<menu, archive, frontend, session, op, pc, args, locals, result,
                   listing, effects, operation_cancelled, cancel_button,
                   ui_zip_path, zip_contents, worker, cancel_at, writer,
                   view, extractors>>

\* list_zip_contents, line 64.
list_set_path(w) ==
    /\ frontend = "gui" /\ loaders[w].pc = "set_path"
    /\ current_zip_path' = loaders[w].file_path
    /\ Goto(w, "set_info")
    /\ UNCHANGED <<menu, archive, frontend, current_zip_info, password, op, pc,
                   args, locals, result, listing, effects, gui, writer,
                   handles, view, extractors>>

\* list_zip_contents, line 65.
list_set_info(w) ==
    /\ frontend = "gui" /\ loaders[w].pc = "set_info"
    /\ current_zip_info' = loaders[w].contents
    /\ Goto(w, "set_password")
    /\ UNCHANGED <<menu, archive, frontend, current_zip_path, password, op, pc,
                   args, locals, result, listing, effects, gui, writer,
                   handles, view, extractors>>

\* list_zip_contents, lines 66-67: the last assignment, the return and the
\* end of the with block.
list_set_password(w) ==
    /\ frontend = "gui" /\ loaders[w].pc = "set_password"
    /\ password' = loaders[w].password
    /\ handles' = handles - 1
    /\ Goto(w, "set_contents")
    /\ UNCHANGED <<menu, archive, frontend, current_zip_path, current_zip_info, op,
                   pc, args, locals, result, listing, effects, gui, writer,
                   view, extractors>>

\* load_worker, line 410.
load_worker_contents(w) ==
    /\ frontend = "gui" /\ loaders[w].pc = "set_contents"
    /\ zip_contents' = loaders[w].contents
    /\ Goto(w, "set_ui_path")
    /\ UNCHANGED <<menu, archive, frontend, session, op, pc, args, locals, result,
                   listing, effects, operation_cancelled, cancel_button,
                   status_var, ui_zip_path, worker, cancel_at, writer,
                   handles, view, extractors>>

\* load_worker, line 411.
load_worker_path(w) ==
    /\ frontend = "gui" /\ loaders[w].pc = "set_ui_path"
    /\ ui_zip_path' = loaders[w].file_path
    /\ Goto(w, "populate")
    /\ UNCHANGED <<menu, archive, frontend, session, op, pc, args, locals, result,
                   listing, effects, operation_cancelled, cancel_button,
                   status_var, zip_contents, worker, cancel_at, writer,
                   handles, view, extractors>>

\* load_worker, lines 412-415: show the listing.
load_worker_populate(w) ==
    /\ frontend = "gui" /\ loaders[w].pc = "populate"
    /\ tree' = Rows(loaders[w].contents)
    /\ selected_items' \in AfterRepopulate
    /\ status_var' = "Loaded"
    /\ Goto(w, "done")
    /\ UNCHANGED <<menu, archive, frontend, session, op, pc, args, locals, result,
                   listing, effects, operation_cancelled, cancel_button,
                   ui_zip_path, zip_contents, worker, cancel_at, writer,
                   handles, extractors>>

InitLoad ==
    /\ Init
    /\ frontend = "gui"

NextLoad ==
    \E w \in Workers :
       \/ \E file_path \in LoadPaths : start_load_worker(w, file_path)
       \/ \E answer \in {None, ArchivePassword} : load_worker_list(w, answer)
       \/ list_set_path(w)
       \/ list_set_info(w)
       \/ list_set_password(w)
       \/ load_worker_contents(w)
       \/ load_worker_path(w)
       \/ load_worker_populate(w)

SpecLoad == InitLoad /\ [][NextLoad]_vars

\* ---------------------------------------------------------------- cancel
\* Two extract_worker threads of the window.  _extract_files_with_progress
\* starts a thread per call and no button is disabled while one runs, so a
\* second extraction can be started before the first has ended.

\* extract_all / extract_selected and _extract_files_with_progress, lines
\* 588-590 and 627: the main thread resets the flag, enables Cancel and
\* starts a worker.
start_extract_worker(w, extract_dir, selected_only) ==
    /\ frontend = "gui" /\ extractors[w].pc \in {"none", "finished"}
    /\ selected_only => selected_items # NoSelection
    /\ ui_zip_path # None
    /\ operation_cancelled' = FALSE
    /\ cancel_button' = "normal"
    /\ extractors' = [extractors EXCEPT ![w] =
                         [pc |-> "running", selected_only |-> selected_only,
                          extract_dir |-> extract_dir,
                          cancel_requested |-> FALSE]]
    /\ UNCHANGED <<menu, archive, frontend, session, op, pc, args, locals, result,
                   listing, effects, status_var, ui_zip_path, zip_contents,
                   worker, cancel_at, writer, handles, view, loaders>>

\* extract_worker, lines 593-625: the call of the reader raises (TypeError
\* for the keyword progress_callback, or TclError before it for a deleted
\* row), the handler reports it, and the finally clause disables Cancel.
extract_worker_run(w) ==
    /\ frontend = "gui" /\ extractors[w].pc = "running"
    /\ status_var' = "Extraction error"
    /\ cancel_button' = "disabled"
    /\ extractors' = [extractors EXCEPT ![w].pc = "finished"]
    /\ UNCHANGED <<menu, archive, frontend, session, op, pc, args, locals, result,
                   listing, effects, operation_cancelled, ui_zip_path,
                   zip_contents, worker, cancel_at, writer, handles, view,
                   loaders>>

InitCancel ==
    /\ Init
    /\ frontend = "gui"

NextCancel ==
    \/ \E answer \in {None, ArchivePassword} :
          load_zip_file("sample.zip", answer)
    \/ \E selected \in Selections : on_tree_select(selected)
    \/ \E w \in Workers, selected_only \in BOOLEAN :
          start_extract_worker(w, "out", selected_only)
    \/ cancel_operation
    \/ \E w \in Workers : extract_worker_run(w)

SpecCancel == InitCancel /\ [][NextCancel]_vars

\* ---------------------------------------------------------------- menu
\* MenuSystem.run, the loop of the console program.

\* The attributes class Config has (config.py), and those display_main_menu
\* reads (menu_system.py, lines 19 and 22).
Config ==
    {"APP_NAME", "APP_VERSION", "APP_DESCRIPTION", "ZIP_EXTENSIONS",
     "SUPPORTED_FORMATS", "MAX_FILENAME_DISPLAY", "ITEMS_PER_PAGE",
     "DEFAULT_EXTRACT_DIR", "GUI", "FILE_TYPES", "Compression"}
MenuAttributes == {"APP_NAME", "APP_VERSION", "MENU_OPTIONS"}

\* display_main_menu: reading an attribute Config lacks raises
\* AttributeError.
display_main_menu == IF MenuAttributes \subseteq Config THEN "shown"
                     ELSE "AttributeError"

Choices == {"1", "2", "3", "4", "5", "x"}
Signals == {"none", "interrupt"}
Keys == {"enter", "interrupt", "eof"}

\* run, line 29: clear the screen and reach the loop.
run_start ==
    /\ frontend = "cli" /\ menu_pc = "start"
    /\ menu_pc' = "loop"
    /\ UNCHANGED <<archive, frontend, session, op, pc, args, locals, result,
                   listing, effects, gui, writer, handles, view, threads,
                   running, iterations, prompts, choice>>

\* run, lines 31-59: one turn of the loop.  signal: Ctrl-C while the menu
\* is being displayed (handled at 53-55 by exit_application); typed: the
\* answer to the option prompt; key: the answer to pause() in the handler
\* at 56-59, where Ctrl-C and end of input leave run() for main().  The
\* menus of options 1 to 4 return to the loop.
run_iteration(signal, typed, key) ==
    /\ frontend = "cli" /\ menu_pc = "loop" /\ running
    /\ iterations < MaxIterations
    /\ iterations' = iterations + 1
    /\ IF signal = "interrupt"
         THEN /\ running' = FALSE
              /\ UNCHANGED <<menu_pc, prompts, choice>>
         ELSE IF display_main_menu = "shown"
         THEN /\ prompts' = prompts + 1
              /\ choice' = typed
              /\ running' = (typed # "5")
              /\ UNCHANGED menu_pc
         ELSE /\ menu_pc' = CASE key = "enter"     -> "loop"
                               [] key = "interrupt" -> "KeyboardInterrupt"
                               [] key = "eof"       -> "EOFError"
              /\ UNCHANGED <<running, prompts, choice>>
    /\ UNCHANGED <<archive, frontend, session, op, pc, args, locals, result,
                   listing, effects, gui, writer, handles, view, threads>>

\* run, line 31: the loop ends when running is false.
run_return ==
    /\ frontend = "cli" /\ menu_pc = "loop" /\ ~running
    /\ menu_pc' = "returned"
    /\ UNCHANGED <<archive, frontend, session, op, pc, args, locals, result,
                   listing, effects, gui, writer, handles, view, threads,
                   running, iterations, prompts, choice>>

InitMenu ==
    /\ Init
    /\ frontend = "cli"

NextMenu ==
    \/ run_start
    \/ \E signal \in Signals, typed \in Choices, key \in Keys :
          run_iteration(signal, typed, key)
    \/ run_return

SpecMenu == InitMenu /\ [][NextMenu]_vars

\* ---------------------------------------------------------------- probe
\* The probe on its own, over archives that may also hold members whose
\* data is corrupt.
ProbeKinds == Kinds \cup {"corrupt"}
ProbeArchives ==
    {MakeArchive(ks, o) :
        ks \in UNION {[1..n -> ProbeKinds] : n \in 0..MaxMembers},
        o \in NameOrders}

\* MenuSystem.check_password_needed called by a menu before it asks for the
\* password.
check_password_needed_call(zp) ==
    /\ frontend = "cli" /\ pc = "idle"
    /\ op' = "probe" /\ pc' = "done"
    /\ zip_path' = zp
    /\ result' = IF check_password_needed(zp, archive) THEN "True" ELSE "False"
    /\ UNCHANGED <<menu, threads, handles, view, archive, frontend, writer, session, extract_to, pwd, indices,
                   locals, listing, effects, gui>>

InitProbe ==
    /\ archive \in ProbeArchives
    /\ frontend = "cli"
    /\ current_zip_path = None /\ current_zip_info = <<>> /\ password = None
    /\ op = "idle" /\ pc = "idle"
    /\ zip_path = None /\ extract_to = None /\ pwd = None /\ indices = <<>>
    /\ work = <<>> /\ pos = 0 /\ extracted_count = 0
    /\ result = "none" /\ listing = <<>>
    /\ dir_created = FALSE /\ opened = FALSE /\ disk = {} /\ log = <<>>
    /\ operation_cancelled = FALSE /\ cancel_button = "disabled"
    /\ status_var = "Ready" /\ ui_zip_path = None /\ zip_contents = <<>>
    /\ worker = "none" /\ cancel_at = -1
    /\ handles = 0
    /\ tree = <<>> /\ selected_items = NoSelection
    /\ loaders = [w \in Workers |-> IdleLoader]
    /\ extractors = [w \in Workers |-> IdleExtractor]
    /\ running = TRUE /\ menu_pc = "start"
    /\ iterations = 0 /\ prompts = 0 /\ choice = "none"
    /\ source = NoSource /\ destination = Untouched

NextProbe ==
    \/ \E zp \in ZipPaths : check_password_needed_call(zp)
    \/ Return

SpecProbe == InitProbe /\ [][NextProbe]_vars

\* ---------------------------------------------------------------- create
\* log entries of the writer
Codec(path)         == [ev |-> "codec",    x |-> path, y |-> 0]
Returned(path, ret) == [ev |-> "returned", x |-> path, y |-> ret]
Write(i, ok)        == [ev |-> "write",    x |-> i, y |-> IF ok THEN 1 ELSE 0]
Info(msg)           == [ev |-> "info",     x |-> msg, y |-> 0]
Batch(file_paths, arc_names, zp, pw, level, ok) ==
    [ev |-> "batch",
     x  |-> [file_paths |-> file_paths, arc_names |-> arc_names,
             zip_path |-> zp, password |-> pw, compression_level |-> level],
     y  |-> IF ok THEN "returned" ELSE "raised"]

\* Path.name and Path.relative_to on paths given as component sequences.
name(path) == path[Len(path)]
relative_to(path, base) == SubSeq(path, Len(base) + 1, Len(path))

\* files_to_compress naming every member by the base name of its file.
files_to_compress_BaseNames(src) ==
    [i \in 1..Len(src.files) |->
        [file_path |-> src.files[i].path,
         arc_name  |-> <<name(src.files[i].path)>>,
         file_size |-> src.files[i].file_size]]

\* create_zip_archive, lines 253-263: the (file_path, arc_name) pairs; the
\* size is what the file has on disk when it is written.
files_to_compress(src) ==
    IF src.kind = "file"
      THEN <<[file_path |-> src.path, arc_name |-> <<name(src.path)>>,
              file_size |-> src.files[1].file_size]>>
    ELSE IF src.kind = "dir"
      THEN [i \in 1..Len(src.files) |->
              [file_path |-> src.files[i].path,
               arc_name  |-> relative_to(src.files[i].path, src.path),
               file_size |-> src.files[i].file_size]]
    ELSE <<>>

\* _create_standard_zip answering False when no file could be added.
create_standard_zip_NeedsOneFile(files, arch, level, failing, container_ok) ==
    LET n == Len(files)
        ok(i) == i \notin failing
        added == SelectSeq([i \in 1..n |-> i], ok)
        ret == IF Len(added) > 0 THEN "True" ELSE "False"
    IN  IF ~container_ok
          THEN [ret |-> "False", archive |-> arch, opened |-> FALSE,
                destination |-> destination,
                log |-> <<Codec("standard"), Error(-1),
                          Returned("standard", "False")>>]
          ELSE [ret |-> ret,
                archive |-> [k \in 1..Len(added) |->
                               [filename  |-> files[added[k]].arc_name,
                                kind      |-> "file",
                                file_size |-> files[added[k]].file_size]],
                opened |-> TRUE,
                destination |-> [by |-> "standard",
                                 failures |-> Cardinality(failing)],
                log |-> <<Codec("standard")>>
                        \o [j \in 1..(2 * n) |->
                              LET i == (j + 1) \div 2
                              IN  IF j % 2 = 1 THEN Write(i - 1, ok(i))
                                  ELSE IF ok(i) THEN Progress(i, n)
                                  ELSE Error(i - 1)]
                        \o <<Info("Successfully created zip archive"),
                              Returned("standard", ret)>>]

\* _create_standard_zip, lines 284-305.  failing: the files whose
\* zip_file.write raises; container_ok: ZipFile(zip_path, 'w') could be
\* opened and finalised.  Returns the return value, the archive left at
\* the destination and what was printed.
create_standard_zip(files, arch, level, failing, container_ok) ==
    LET n == Len(files)
        ok(i) == i \notin failing
        added == SelectSeq([i \in 1..n |-> i], ok)
    IN  IF ~container_ok
          THEN [ret |-> "False", archive |-> arch, opened |-> FALSE,
                destination |-> destination,
                log |-> <<Codec("standard"), Error(-1),
                          Returned("standard", "False")>>]
          ELSE [ret |-> "True",
                archive |-> [k \in 1..Len(added) |->
                               [filename  |-> files[added[k]].arc_name,
                                kind      |-> "file",
                                file_size |-> files[added[k]].file_size]],
                opened |-> TRUE,
                destination |-> [by |-> "standard",
                                 failures |-> Cardinality(failing)],
                log |-> <<Codec("standard")>>
                        \o [j \in 1..(2 * n) |->
                              LET i == (j + 1) \div 2
                              IN  IF j % 2 = 1 THEN Write(i - 1, ok(i))
                                  ELSE IF ok(i) THEN Progress(i, n)
                                  ELSE Error(i - 1)]
                        \o <<Info("Successfully created zip archive"),
                              Returned("standard", "True")>>]

\* _create_password_protected_zip calling pyminizip once per file.
create_password_protected_zip_PerFile(files, arch, zp, pw, level, batch_ok) ==
    LET n == Len(files)
        ret == IF batch_ok THEN "True" ELSE "False"
    IN  [ret |-> ret,
         archive |-> IF batch_ok
                       THEN [i \in 1..n |->
                               [filename  |-> files[i].arc_name
                                                \o <<name(files[i].file_path)>>,
                                kind      |-> "enc",
                                file_size |-> files[i].file_size]]
                       ELSE arch,
         opened |-> batch_ok,
         destination |-> IF batch_ok THEN [by |-> "pyminizip", failures |-> 0]
                         ELSE destination,
         log |-> <<Codec("encrypted"),
                   Info("Creating password-protected archive...")>>
                 \o [j \in 1..(2 * n) |->
                       LET i == (j + 1) \div 2
                       IN  IF j % 2 = 1
                             THEN Batch(<<files[i].file_path>>,
                                        <<files[i].arc_name>>,
                                        zp, pw, level, batch_ok)
                             ELSE Progress(i, n)]
                 \o <<Returned("encrypted", ret)>>]

\* _create_password_protected_zip, lines 307-330: one call of
\* pyminizip.compress_multiple(file_paths, arc_names, zip_path, password,
\* compression_level); batch_ok: the call returns.  pyminizip takes its
\* second list as path prefixes and stores every file, encrypted, as prefix
\* plus base name; what a raising call leaves at the destination is taken to
\* be what was there.
create_password_protected_zip(files, arch, zp, pw, level, batch_ok) ==
    LET n == Len(files)
        file_paths == [i \in 1..n |-> files[i].file_path]
        arc_names == [i \in 1..n |-> files[i].arc_name]
        ret == IF batch_ok THEN "True" ELSE "False"
    IN  [ret |-> ret,
         archive |-> IF batch_ok
                       THEN [i \in 1..n |->
                               [filename  |-> arc_names[i]
                                                \o <<name(file_paths[i])>>,
                                kind      |-> "enc",
                                file_size |-> files[i].file_size]]
                       ELSE arch,
         opened |-> batch_ok,
         destination |-> IF batch_ok THEN [by |-> "pyminizip", failures |-> 0]
                         ELSE destination,
         log |-> <<Codec("encrypted"),
                   Info("Creating password-protected archive...")>>
                 \o <<Batch(file_paths, arc_names, zp, pw, level, batch_ok)>>
                 \o (IF batch_ok
                       THEN <<Info("Successfully created password-protected zip archive")>>
                       ELSE <<Error(-1)>>)
                 \o <<Returned("encrypted", ret)>>]

\* create_zip_archive that goes on to the codec with an empty file list.
create_zip_archive_NoEmptyCheck(zp, pw, level, failing, container_ok, batch_ok) ==
    LET files == files_to_compress(source)
        r == IF Truthy(pw)
               THEN create_password_protected_zip(files, archive, zp, pw,
                                                  level, batch_ok)
               ELSE create_standard_zip(files, archive, level, failing,
                                        container_ok)
    IN
    /\ frontend = "cli" /\ pc = "idle"
    /\ failing \subseteq 1..Len(files)
    /\ op' = "create" /\ pc' = "done"
    /\ zip_path' = zp /\ pwd' = pw
    /\ IF source.kind = "missing"
         THEN /\ result' = "False"
              /\ log' = <<Info("Source path does not exist")>>
              /\ opened' = FALSE
              /\ UNCHANGED <<archive, destination>>
         ELSE /\ result' = r.ret
              /\ log' = <<Info("Creating zip archive")>> \o r.log
              /\ opened' = r.opened
              /\ archive' = r.archive
              /\ destination' = r.destination
    /\ UNCHANGED <<menu, threads, handles, view, frontend, session, extract_to, indices, locals, listing,
                   dir_created, disk, gui, source>>

\* create_zip_archive that takes the standard path whatever the password.
create_zip_archive_AlwaysStandard(zp, pw, level, failing, container_ok, batch_ok) ==
    LET files == files_to_compress(source)
        r == create_standard_zip(files, archive, level, failing, container_ok)
    IN
    /\ frontend = "cli" /\ pc = "idle"
    /\ failing \subseteq 1..Len(files)
    /\ op' = "create" /\ pc' = "done"
    /\ zip_path' = zp /\ pwd' = pw
    /\ IF source.kind = "missing"
         THEN /\ result' = "False"
              /\ log' = <<Info("Source path does not exist")>>
              /\ opened' = FALSE
              /\ UNCHANGED <<archive, destination>>
         ELSE IF files = <<>>
         THEN /\ result' = "False"
              /\ log' = <<Info("No files found to compress")>>
              /\ opened' = FALSE
              /\ UNCHANGED <<archive, destination>>
         ELSE /\ result' = r.ret
              /\ log' = <<Info("Creating zip archive")>> \o r.log
              /\ opened' = r.opened
              /\ archive' = r.archive
              /\ destination' = r.destination
    /\ UNCHANGED <<menu, threads, handles, view, frontend, session, extract_to, indices, locals, listing,
                   dir_created, disk, gui, source>>

\* ZipManager.create_zip_archive, lines 244-282, with the path method it
\* calls.  The source is the filesystem as it is; failing, container_ok and
\* batch_ok are what the filesystem and pyminizip do during the call.
create_zip_archive(zp, pw, level, failing, container_ok, batch_ok) ==
    LET files == files_to_compress(source)
        r == IF Truthy(pw)
               THEN create_password_protected_zip(files, archive, zp, pw,
                                                  level, batch_ok)
               ELSE create_standard_zip(files, archive, level, failing,
                                        container_ok)
    IN
    /\ frontend = "cli" /\ pc = "idle"
    /\ failing \subseteq 1..Len(files)
    /\ op' = "create" /\ pc' = "done"
    /\ zip_path' = zp /\ pwd' = pw
    /\ IF source.kind = "missing"
         THEN /\ result' = "False"
              /\ log' = <<Info("Source path does not exist")>>
              /\ opened' = FALSE
              /\ UNCHANGED <<archive, destination>>
         ELSE IF files = <<>>
         THEN /\ result' = "False"
              /\ log' = <<Info("No files found to compress")>>
              /\ opened' = FALSE
              /\ UNCHANGED <<archive, destination>>
         ELSE /\ result' = r.ret
              /\ log' = <<Info("Creating zip archive")>> \o r.log
              /\ opened' = r.opened
              /\ archive' = r.archive
              /\ destination' = r.destination
    /\ UNCHANGED <<menu, threads, handles, view, frontend, session, extract_to, indices, locals, listing,
                   dir_created, disk, gui, source>>

\* sample.zip as it is before the first create: one stored file.
OldArchive == <<[filename |-> <<"old">>, kind |-> "file", file_size |-> 7]>>

InitCreate ==
    /\ archive = OldArchive
    /\ frontend = "cli"
    /\ current_zip_path = None /\ current_zip_info = <<>> /\ password = None
    /\ op = "idle" /\ pc = "idle"
    /\ zip_path = None /\ extract_to = None /\ pwd = None /\ indices = <<>>
    /\ work = <<>> /\ pos = 0 /\ extracted_count = 0
    /\ result = "none" /\ listing = <<>>
    /\ dir_created = FALSE /\ opened = FALSE /\ disk = {} /\ log = <<>>
    /\ operation_cancelled = FALSE /\ cancel_button = "disabled"
    /\ status_var = "Ready" /\ ui_zip_path = None /\ zip_contents = <<>>
    /\ worker = "none" /\ cancel_at = -1
    /\ handles = 0
    /\ tree = <<>> /\ selected_items = NoSelection
    /\ loaders = [w \in Workers |-> IdleLoader]
    /\ extractors = [w \in Workers |-> IdleExtractor]
    /\ running = TRUE /\ menu_pc = "start"
    /\ iterations = 0 /\ prompts = 0 /\ choice = "none"
    /\ source \in Sources /\ destination = Untouched

\* The inputs of one create call: what the standard path meets (failing,
\* container_ok) is drawn without a password, what pyminizip does (batch_ok)
\* with one.
NextCreate ==
    \/ \E level \in Levels, failing \in SUBSET (1..Len(WalkPaths)),
          container_ok \in BOOLEAN :
          create_zip_archive("sample.zip", None, level, failing, container_ok,
                             TRUE)
    \/ \E level \in Levels, batch_ok \in BOOLEAN :
          create_zip_archive("sample.zip", ArchivePassword, level, {}, TRUE,
                             batch_ok)
    \/ \E zp \in ZipPaths, pw \in CreatePasswords : list_zip_contents(zp, pw)
    \/ Return

SpecCreate == InitCreate /\ [][NextCreate]_vars

\* ---------------------------------------------------------------- handles
\* Every operation that opens an archive, one after the other on the
\* console: the three reader operations, the probe and create on a source
\* directory of one file.
OneFileTree ==
    [path |-> SourceDir, kind |-> "dir",
     files |-> <<[path |-> WalkPaths[1], file_size |-> 7]>>]

InitHandles ==
    /\ archive \in Archives
    /\ frontend = "cli"
    /\ current_zip_path = None /\ current_zip_info = <<>> /\ password = None
    /\ op = "idle" /\ pc = "idle"
    /\ zip_path = None /\ extract_to = None /\ pwd = None /\ indices = <<>>
    /\ work = <<>> /\ pos = 0 /\ extracted_count = 0
    /\ result = "none" /\ listing = <<>>
    /\ dir_created = FALSE /\ opened = FALSE /\ disk = {} /\ log = <<>>
    /\ operation_cancelled = FALSE /\ cancel_button = "disabled"
    /\ status_var = "Ready" /\ ui_zip_path = None /\ zip_contents = <<>>
    /\ worker = "none" /\ cancel_at = -1
    /\ handles = 0
    /\ tree = <<>> /\ selected_items = NoSelection
    /\ loaders = [w \in Workers |-> IdleLoader]
    /\ extractors = [w \in Workers |-> IdleExtractor]
    /\ running = TRUE /\ menu_pc = "start"
    /\ iterations = 0 /\ prompts = 0 /\ choice = "none"
    /\ source = OneFileTree /\ destination = Untouched

NextHandles ==
    \/ \E zp \in ZipPaths, pw \in {None, ArchivePassword, "collide"} :
          list_zip_contents(zp, pw)
    \/ \E zp \in ZipPaths : check_password_needed_call(zp)
    \/ \E zp \in ZipPaths, dest \in Destinations, pw \in {None, "wrong"} :
          extract_all_begin(zp, dest, pw)
    \/ \E io_ok \in BOOLEAN : extract_all_member(io_ok)
    \/ extract_all_end
    \/ \E zp \in ZipPaths, dest \in Destinations, ixs \in IndexLists :
          extract_selected_begin(zp, dest, ixs, None)
    \/ \E io_ok \in BOOLEAN : extract_selected_member(io_ok)
    \/ extract_selected_end
    \/ \E failing \in SUBSET {1}, container_ok \in BOOLEAN :
          create_zip_archive("sample.zip", None, 6, failing, container_ok, TRUE)
    \/ Return

SpecHandles == InitHandles /\ [][NextHandles]_vars

\* ---------------------------------------------------------------- ratio
\* A number the ratio can be: the fraction num/den in lowest terms, den > 0
\* (Python evaluates the same expression in floating point and returns the
\* float nearest to this number).
RECURSIVE Gcd(_, _)
Gcd(a, b) == IF b = 0 THEN a ELSE Gcd(b, a % b)
Abs(a) == IF a < 0 THEN -a ELSE a
Fraction(num, den) ==
    LET g == Gcd(Abs(num), den)
    IN  [num |-> num \div g, den |-> den \div g]

\* get_compression_ratio never going below zero.
get_compression_ratio_Clamped(info) ==
    IF info.file_size = 0 \/ info.compress_size > info.file_size
      THEN Fraction(0, 1)
      ELSE Fraction((info.file_size - info.compress_size) * 100, info.file_size)

\* ZipInfo.get_compression_ratio, lines 30-34:
\* (1 - compress_size / file_size) * 100, and 0.0 for an empty entry.
get_compression_ratio(info) ==
    IF info.file_size = 0
      THEN Fraction(0, 1)
      ELSE Fraction((info.file_size - info.compress_size) * 100, info.file_size)

\* The entries a listing can hold, as far as the ratio goes: every pair of
\* small sizes, the pair 100 raw / 40 stored, and a directory entry.
RatioSizes == 0..MaxSize \cup {40, 100}
RatioEntries ==
    {[filename |-> 1, file_size |-> fs, compress_size |-> cs, is_dir |-> d] :
        fs \in RatioSizes, cs \in RatioSizes, d \in BOOLEAN}
    \ {e \in [filename : {1}, file_size : RatioSizes, compress_size : RatioSizes,
                is_dir : {TRUE}] : e.file_size # 0}

\* file_info.get_compression_ratio() on an entry of the last listing, as
\* display_zip_contents does for every row.
get_compression_ratio_call ==
    /\ frontend = "cli" /\ pc = "idle"
    /\ Len(listing) > 0
    /\ op' = "ratio" /\ pc' = "done"
    /\ result' = get_compression_ratio(listing[1])
    /\ UNCHANGED <<menu, threads, handles, view, archive, frontend, writer, session, args, locals,
                   listing, effects, gui>>

\* The operation has returned; the listing stays on the screen.
ratio_return ==
    /\ op = "ratio" /\ pc = "done"
    /\ op' = "idle" /\ pc' = "idle" /\ result' = "none"
    /\ UNCHANGED <<menu, threads, handles, view, archive, frontend, writer, session, args, locals,
                   listing, effects, gui>>

InitRatio ==
    /\ archive = <<>>
    /\ frontend = "cli"
    /\ current_zip_path = None /\ current_zip_info = <<>> /\ password = None
    /\ op = "idle" /\ pc = "idle"
    /\ zip_path = None /\ extract_to = None /\ pwd = None /\ indices = <<>>
    /\ work = <<>> /\ pos = 0 /\ extracted_count = 0
    /\ result = "none"
    /\ \E e \in RatioEntries : listing = <<e>>
    /\ dir_created = FALSE /\ opened = FALSE /\ disk = {} /\ log = <<>>
    /\ operation_cancelled = FALSE /\ cancel_button = "disabled"
    /\ status_var = "Ready" /\ ui_zip_path = None /\ zip_contents = <<>>
    /\ worker = "none" /\ cancel_at = -1
    /\ handles = 0
    /\ tree = <<>> /\ selected_items = NoSelection
    /\ loaders = [w \in Workers |-> IdleLoader]
    /\ extractors = [w \in Workers |-> IdleExtractor]
    /\ running = TRUE /\ menu_pc = "start"
    /\ iterations = 0 /\ prompts = 0 /\ choice = "none"
    /\ source = NoSource /\ destination = Untouched

NextRatio ==
    \/ get_compression_ratio_call
    \/ ratio_return

SpecRatio == InitRatio /\ [][NextRatio]_vars

\* ================================================================ claims
\* What the log says about the member attempts of the current operation.
Attempts == Events("attempt")
Succeeded == SelectSeq(Attempts, LAMBDA e : e.y = 1)
Failed == SelectSeq(Attempts, LAMBDA e : e.y = 0)

\* The positions of the non-directory members of the archive on disk.
FilePositions == {i \in 0..(Len(archive) - 1) : archive[i + 1].kind # "dir"}

\* The reader itself ran (called with the arguments it has).
ReaderRan(o) == frontend = "cli" /\ op = o /\ pc \in {"loop", "done"}

\* C1: in extract-all a member's failure never aborts the loop: the attempts
\* made so far are the first non-directory members in archive order, one
\* attempt each, none on a directory, and when the operation has finished
\* every non-directory member has been attempted exactly once, whatever
\* failed before it.
C1_FailureNeverAbortsLoop ==
    (ReaderRan("extract_all") /\ opened) =>
        /\ \A i \in 1..Len(Attempts) : Attempts[i].x \in FilePositions
        /\ \A i, j \in 1..Len(Attempts) :
              i < j => Attempts[i].x < Attempts[j].x
        /\ \A i \in 1..Len(Attempts) :
              \A f \in FilePositions :
                 f < Attempts[i].x => \E j \in 1..(i - 1) : Attempts[j].x = f
        /\ pc = "done" =>
              \A f \in FilePositions :
                 Cardinality({i \in 1..Len(Attempts) : Attempts[i].x = f}) = 1

\* C1 witness: extract-all has finished, its first attempt failed and a later
\* member was still attempted, and extracted.
C1_Witness ==
    /\ ReaderRan("extract_all") /\ pc = "done"
    /\ Len(Attempts) = 2
    /\ Attempts[1].y = 0
    /\ Attempts[2].y = 1

\* C2: once the destination exists and the archive is open, extract-all
\* returns success when the archive has no non-directory member, and
\* otherwise exactly when at least one member was extracted.
C2_ExtractAllResult ==
    (ReaderRan("extract_all") /\ pc = "done" /\ opened) =>
        /\ extracted_count = Len(Succeeded)
        /\ extracted_count = Cardinality(disk)
        /\ result = IF FilePositions = {} THEN "True"
                    ELSE IF Len(Succeeded) > 0 THEN "True" ELSE "False"

\* C2 witness: one member extracted, another failed, success reported.
C2_Witness ==
    /\ ReaderRan("extract_all") /\ pc = "done"
    /\ Len(Succeeded) = 1 /\ Len(Failed) = 1
    /\ result = "True"

\* C3: when the destination cannot be created, extract-all and
\* extract-selected have failed before the archive is opened: no member is
\* attempted, skipped or written, and the result is failure.
C3_UncreatableDestinationFailsFirst ==
    (/\ frontend = "cli"
     /\ op \in {"extract_all", "extract_selected"}
     /\ extract_to = "uncreatable") =>
        /\ pc = "done"
        /\ result = "False"
        /\ ~opened
        /\ log = <<>> /\ disk = {}

\* C3 witness: extract-selected with a valid selection on a readable archive,
\* stopped by the destination.
C3_Witness ==
    /\ frontend = "cli" /\ op = "extract_selected" /\ pc = "done"
    /\ extract_to = "uncreatable"
    /\ zip_path = "sample.zip"
    /\ \E i \in 1..Len(indices) : indices[i] \in FilePositions
\* C4 (as claimed): during extract-all a progress report follows every member
\* attempt, failed or not, so there are as many reports as attempts.
C4_ProgressAfterEveryAttempt ==
    ReaderRan("extract_all") =>
        Len(Events("progress")) = Len(Attempts)

\* C5 (as claimed): when cancellation is requested after k of the n members
\* have been attempted (k < n), the extraction ends with exactly those k
\* attempts and is reported as cancelled.
C5_CancelStopsBetweenMembers ==
    (/\ frontend = "gui" /\ worker = "finished"
     /\ operation_cancelled
     /\ cancel_at < Cardinality(FilePositions)) =>
        /\ Len(Attempts) = cancel_at
        /\ status_var = "Extraction cancelled"

\* The in-range entries of the index list given to extract-selected.
InRange(i) == 0 <= i /\ i < Len(archive)
InRangeIndices == SelectSeq(indices, InRange)
SelectedFiles == SelectSeq(indices, LAMBDA i : i \in FilePositions)
Skips == Events("skip_dir")
Touched == SelectSeq(log, LAMBDA e : e.ev \in {"attempt", "skip_dir"})

\* C6: extract-selected drops the indices outside [0, entry_count) before it
\* processes anything: every member it attempts or skips is at an in-range
\* index of the list; and when no index is in range it fails without having
\* attempted, skipped or written anything.
C6_OutOfRangeIndicesDropped ==
    (ReaderRan("extract_selected") /\ opened) =>
        /\ \A i \in 1..Len(Touched) :
              /\ InRange(Touched[i].x)
              /\ \E k \in 1..Len(indices) : indices[k] = Touched[i].x
        /\ pc = "done" => Len(Touched) = Len(InRangeIndices)
        /\ Len(InRangeIndices) = 0 =>
              /\ pc = "done" /\ result = "False"
              /\ log = <<>> /\ disk = {}

\* C6 witness: a selection made only of indices outside the archive, on an
\* archive that opened and has members.
C6_Witness ==
    /\ ReaderRan("extract_selected") /\ opened
    /\ Len(archive) > 0
    /\ Len(indices) = 2
    /\ Len(InRangeIndices) = 0

\* C7 (as claimed): with at least one index in range and no per-member
\* failure, extract-selected attempts exactly the non-directory members at
\* the in-range indices and returns success with that many processed.
C7_SelectedSuccessAsClaimed ==
    (/\ ReaderRan("extract_selected") /\ pc = "done" /\ opened
     /\ Len(InRangeIndices) > 0
     /\ Len(Failed) = 0) =>
        /\ [i \in 1..Len(Attempts) |-> Attempts[i].x] = SelectedFiles
        /\ extracted_count = Len(SelectedFiles)
        /\ result = "True"

\* C7 (amended): extract-selected attempts exactly the non-directory members
\* at the in-range indices, in list order; with no per-member failure the
\* number extracted is the number of those indices, and the result is
\* success exactly when that number is not zero.
C7_SelectedAttemptsAndResult ==
    (ReaderRan("extract_selected") /\ pc = "done" /\ opened) =>
        /\ [i \in 1..Len(Attempts) |-> Attempts[i].x] = SelectedFiles
        /\ Len(Failed) = 0 =>
              /\ extracted_count = Len(SelectedFiles)
              /\ result = IF Len(SelectedFiles) > 0 THEN "True" ELSE "False"

\* C7 witness: three indices, two of them files of the archive and one
\* outside it; both files extracted, success.
C7_Witness ==
    /\ ReaderRan("extract_selected") /\ pc = "done"
    /\ Len(indices) = 3 /\ Len(InRangeIndices) = 2
    /\ extracted_count = 2 /\ result = "True"
    /\ Len(Attempts) = 2

\* C8 (as claimed): when the archive was listed and extract-selected is then
\* called for the same archive with the same password, the member attempted
\* for index i is the member the listing shows at position i.
C8_IndexMeansListedEntry ==
    (/\ ReaderRan("extract_selected") /\ opened
     /\ current_zip_path = zip_path /\ password = pwd) =>
        \A k \in 1..Len(Attempts) :
           LET i == Attempts[k].x
           IN  /\ i < Len(current_zip_info)
               /\ current_zip_info[i + 1].filename = archive[i + 1].filename

\* C9: directory entries among the selected indices are skipped with a
\* warning: none is ever handed to extraction or written, every in-range
\* directory index processed is answered by a warning, and the errors
\* reported are exactly the failed attempts on files.
C9_DirectoriesSkippedNotFailed ==
    (ReaderRan("extract_selected") /\ opened) =>
        /\ \A i \in 1..Len(Attempts) : Attempts[i].x \in FilePositions
        /\ \A i \in 1..Len(Skips) :
              InRange(Skips[i].x) /\ Skips[i].x \notin FilePositions
        /\ Len(Events("error")) = Len(Failed)
        /\ \A n \in disk :
              \E f \in FilePositions : archive[f + 1].filename = n
        /\ pc = "done" =>
              /\ Len(Skips) = Len(InRangeIndices) - Len(SelectedFiles)
              /\ (Len(Succeeded) > 0 => result = "True")

\* C9 witness: a finished selection with a directory skipped and a file
\* extracted, reported as success, no error reported.
C9_Witness ==
    /\ ReaderRan("extract_selected") /\ pc = "done"
    /\ Len(Skips) = 1 /\ Len(Succeeded) = 1
    /\ Len(Events("error")) = 0
    /\ result = "True"

\* C10: listing a valid archive without a password returns one entry per
\* member in central-directory order: as many entries as members, entry i
\* describing member i; the session keeps the same list.
C10_ListingInArchiveOrder ==
    /\ (/\ op = "list" /\ pc = "done"
        /\ OpenZip(zip_path) = "ok" /\ ~Truthy(pwd)) =>
          /\ result = "list"
          /\ Len(listing) = Len(archive)
          /\ \A i \in 1..Len(archive) :
                /\ listing[i].filename = archive[i].filename
                /\ listing[i].is_dir = (archive[i].kind = "dir")
          /\ current_zip_info = listing
    /\ (current_zip_path # None /\ ~Truthy(password)) =>
          /\ Len(current_zip_info) = Len(archive)
          /\ \A i \in 1..Len(archive) :
                current_zip_info[i].filename = archive[i].filename

\* C10 witness: a listing without password of an archive whose two members
\* are stored in descending name order, one of them encrypted.
C10_Witness ==
    /\ op = "list" /\ pc = "done" /\ result = "list" /\ ~Truthy(pwd)
    /\ Len(archive) = 2
    /\ archive[1].filename > archive[2].filename
    /\ archive[1].kind = "enc"
    /\ Len(listing) = 2

\* The listing operation has returned for an archive that could be opened.
Listed == frontend = "cli" /\ op = "list" /\ pc = "done" /\ OpenZip(zip_path) = "ok"

\* The reads a listing made, and the members a best-effort listing keeps:
\* the directories and the files whose read succeeded.
Reads == Events("read")
Authenticated(arch, pw) ==
    SelectSeq(arch, LAMBDA m : is_dir(m) \/ ReadOutcome(m, pw) = "ok")

\* An archive written with a password: it has files, all of them encrypted.
Protected(arch) ==
    /\ \E i \in 1..Len(arch) : arch[i].kind = "enc"
    /\ \A i \in 1..Len(arch) : arch[i].kind \in {"enc", "dir"}

\* C11 (as claimed): when a password is supplied to a listing, every
\* non-directory member is read once, in archive order; the members whose
\* read fails are left out, the others (directories always) are returned in
\* archive order, and the listing succeeds.
C11_PasswordListingSkipsFailures ==
    (Listed /\ Truthy(pwd)) =>
        /\ [k \in 1..Len(Reads) |-> Reads[k].x] = FilesToExtract(archive)
        /\ result = "list"
        /\ listing = [i \in 1..Len(Authenticated(archive, pwd)) |->
                         ZipInfo(Authenticated(archive, pwd)[i])]

\* C12 (as claimed): listing a password-protected archive with a wrong
\* password returns failure, not a listing.
C12_WrongPasswordFails ==
    (/\ Listed /\ Protected(archive)
     /\ Truthy(pwd) /\ pwd # ArchivePassword) =>
        result = "None"

\* C13 (as claimed): listing a password-protected archive without a
\* password fails or returns no non-directory member.
C13_NoPasswordListsNoFile ==
    (Listed /\ Protected(archive) /\ pwd = None) =>
        \/ result = "None"
        \/ \A i \in 1..Len(listing) : listing[i].is_dir

\* C13 (amended): listing a password-protected archive without a password
\* succeeds without reading any member and returns every member of the
\* central directory, the encrypted files included, in archive order.
C13_NoPasswordListsEveryMember ==
    (Listed /\ Protected(archive) /\ pwd = None) =>
        /\ result = "list"
        /\ Reads = <<>>
        /\ [i \in 1..Len(listing) |-> listing[i].filename]
              = [i \in 1..Len(archive) |-> archive[i].filename]
        /\ \E i \in 1..Len(listing) : ~listing[i].is_dir

\* C13 witness: a directory and an encrypted file, listed without password,
\* both returned.
C13_Witness ==
    /\ Listed /\ pwd = None /\ result = "list"
    /\ Protected(archive)
    /\ Len(archive) = 2 /\ archive[1].kind = "dir" /\ archive[2].kind = "enc"
    /\ Len(listing) = 2

\* The session is the one a listing of path zp with password pw leaves.
SessionOf(zp, pw) == <<zp, FileList(archive, pw), pw>>

\* C14: the session is replaced only as a whole and only by a successful
\* listing: at every moment it is empty or holds the path, the entries and
\* the password of one listing; a step that changes any field is a listing
\* that succeeded and sets all three from that listing; a listing that fails
\* (missing path, invalid format, error while reading) leaves all three as
\* they were.
C14_SessionReplacedWholesale ==
    /\ [](IF current_zip_path = None
            THEN current_zip_info = <<>> /\ password = None
            ELSE /\ OpenZip(current_zip_path) = "ok"
                 /\ current_zip_info = FileList(archive, password))
    /\ [][/\ session' # session =>
              /\ \E zp \in ZipPaths, pw \in ListPasswords :
                    /\ OpenZip(zp) = "ok" /\ ~ListAborts(archive, pw)
                    /\ session' = SessionOf(zp, pw)
              /\ \/ /\ frontend = "cli" /\ pc = "idle"
                    /\ op' = "list" /\ result' = "list"
                    /\ session' = <<zip_path', listing', pwd'>>
                 \/ /\ frontend = "gui" /\ status_var' = "Loaded"
                    /\ current_zip_path' = ui_zip_path'
                    /\ current_zip_info' = zip_contents'
          /\ (pc = "idle" /\ op' = "list" /\ result' = "None") =>
                UNCHANGED session
          /\ (frontend = "gui" /\ status_var' = "Failed to load archive") =>
                UNCHANGED session
         ]_vars

\* C14 witness: a session left by a listing without password, still whole
\* after a later listing of the same archive opened it and failed on a read.
C14_Witness ==
    /\ Listed /\ result = "None" /\ opened
    /\ pwd = "collide"
    /\ session = SessionOf("sample.zip", None)
    /\ Len(current_zip_info) = 2

\* The first non-directory member of the archive, as a set (empty if none).
FirstFile ==
    {archive[i] : i \in {j \in 1..Len(archive) :
                            /\ archive[j].kind # "dir"
                            /\ \A k \in 1..(j - 1) : archive[k].kind = "dir"}}

\* C15: the probe answers false when the archive opens and has no
\* non-directory member, and when its first non-directory member is read
\* cleanly without a password; it answers true in every other case: the
\* path cannot be opened, the member is encrypted, the member is corrupt.
C15_ProbeAnswer ==
    (op = "probe" /\ pc = "done") =>
        result = IF /\ OpenZip(zip_path) = "ok"
                    /\ \A m \in FirstFile : m.kind = "file"
                 THEN "False" ELSE "True"

\* C15 witness: the probe has answered true for an archive that opens and
\* whose first file, stored after a directory, is not encrypted but corrupt.
C15_Witness ==
    /\ op = "probe" /\ pc = "done" /\ result = "True"
    /\ OpenZip(zip_path) = "ok"
    /\ Len(archive) = 2
    /\ archive[1].kind = "dir" /\ archive[2].kind = "corrupt"

\* create has returned; the source exists and the walk found files.
Created == frontend = "cli" /\ op = "create" /\ pc = "done"
SourceHasFiles == source.kind # "missing" /\ source.files # <<>>
CodecsEntered == Events("codec")
Batches == Events("batch")
Writes == Events("write")

\* The name a file of the source must get in the archive: its path relative
\* to the source directory, or its base name when the source is that file.
ExpectedName(f) ==
    IF source.kind = "dir"
      THEN [k \in 1..(Len(f.path) - Len(source.path)) |->
              f.path[Len(source.path) + k]]
      ELSE <<f.path[Len(f.path)]>>

\* C16: a create whose source path does not exist, or whose source yields
\* no file, returns failure with the matching message, enters neither codec
\* path and leaves the destination as it was.
C16_NoSourceNoArchive ==
    [][(/\ frontend = "cli" /\ pc = "idle" /\ op' = "create"
        /\ (source.kind = "missing" \/ source.files = <<>>)) =>
          /\ result' = "False"
          /\ log' = <<Info(IF source.kind = "missing"
                             THEN "Source path does not exist"
                             ELSE "No files found to compress")>>
          /\ ~opened'
          /\ archive' = archive
          /\ destination' = destination
      ]_vars

\* C16 witness: create has failed on a source directory without files; the
\* archive that was at the destination is still there.
C16_Witness ==
    /\ Created /\ result = "False"
    /\ source.kind = "dir" /\ source.files = <<>>
    /\ archive = OldArchive

\* C17: once the file list is not empty, create enters exactly one codec
\* path, the encrypted one when a password is given and the standard one
\* when none is; nothing of the other path happens, and create returns what
\* that path returned.
C17_ExactlyOneCodecPath ==
    (Created /\ SourceHasFiles) =>
        /\ Len(CodecsEntered) = 1
        /\ CodecsEntered[1].x = IF pwd = None THEN "standard" ELSE "encrypted"
        /\ pwd = None => Batches = <<>>
        /\ pwd # None => Writes = <<>>
        /\ Len(Events("returned")) = 1
        /\ Events("returned")[1].x = CodecsEntered[1].x
        /\ result = Events("returned")[1].y

\* C17 witness: a create with a password over two files that took the
\* encrypted path and succeeded.
C17_Witness ==
    /\ Created /\ pwd = ArchivePassword /\ result = "True"
    /\ Len(source.files) = 2
    /\ Len(Batches) = 1

\* C18: on the standard path, when the container could be opened, every
\* file is written in turn whatever failed before it; a failed file is
\* reported and left out, the others are in the archive in order, and the
\* result is success however many files failed.
C18_StandardPathSkipsFailures ==
    (Created /\ SourceHasFiles /\ pwd = None /\ opened) =>
        /\ [i \in 1..Len(Writes) |-> Writes[i].x]
              = [i \in 1..Len(source.files) |-> i - 1]
        /\ \A j \in 1..Len(log) :
              log[j].ev = "write" =>
                 /\ j < Len(log)
                 /\ log[j + 1] = IF log[j].y = 1
                                   THEN Progress(log[j].x + 1, Len(source.files))
                                   ELSE Error(log[j].x)
        /\ [k \in 1..Len(archive) |-> archive[k].filename]
              = LET added == SelectSeq(Writes, LAMBDA e : e.y = 1)
                IN  [k \in 1..Len(added) |->
                       ExpectedName(source.files[added[k].x + 1])]
        /\ result = "True"

\* C18 witness: three files, the first could not be added, the second was,
\* the third could not; success.
C18_Witness ==
    /\ Created /\ pwd = None /\ opened /\ result = "True"
    /\ Len(Writes) = 3
    /\ Writes[1].y = 0 /\ Writes[2].y = 1 /\ Writes[3].y = 0
    /\ Len(archive) = 1

\* C19: on the encrypted path the encryption routine is called once, with
\* the list of all files and the list of all archive names, equally long
\* and in the same order; the only reports are one before and one after
\* the call, none per file; the result is success exactly when the call did
\* not raise.
C19_EncryptedPathOneBatch ==
    (Created /\ SourceHasFiles /\ pwd # None) =>
        /\ Len(Batches) = 1
        /\ Batches[1].x.file_paths
              = [i \in 1..Len(source.files) |-> source.files[i].path]
        /\ Batches[1].x.arc_names
              = [i \in 1..Len(source.files) |-> ExpectedName(source.files[i])]
        /\ Len(Batches[1].x.file_paths) = Len(Batches[1].x.arc_names)
        /\ Events("progress") = <<>> /\ Writes = <<>>
        /\ \E j \in 1..Len(log) :
              /\ log[j] = Info("Creating password-protected archive...")
              /\ log[j + 1] = Batches[1]
              /\ log[j + 2].ev \in {"info", "error"}
              /\ log[j + 3].ev = "returned"
              /\ Len(log) = j + 3
        /\ (result = "True") = (Batches[1].y = "returned")

\* C19 witness: three files handed over in one call that returned.
C19_Witness ==
    /\ Created /\ pwd = ArchivePassword /\ result = "True"
    /\ Len(Batches) = 1
    /\ Len(Batches[1].x.file_paths) = 3
    /\ Batches[1].y = "returned"

\* C20: after a create without password on a directory, in which no file
\* failed, a listing of the created archive has exactly one entry per
\* regular file under the source: entry i has the path of file i relative
\* to the source directory and its size, and no entry is a directory.
C20_CreateThenListRoundTrip ==
    (/\ frontend = "cli" /\ op = "list" /\ pc = "done"
     /\ zip_path = "sample.zip" /\ pwd = None
     /\ source.kind = "dir"
     /\ destination.by = "standard" /\ destination.failures = 0) =>
        /\ result = "list"
        /\ Len(listing) = Len(source.files)
        /\ \A i \in 1..Len(source.files) :
              /\ listing[i].filename = ExpectedName(source.files[i])
              /\ listing[i].file_size = source.files[i].file_size
              /\ ~listing[i].is_dir

\* C20 witness: a directory with a file and a subdirectory of two files,
\* created and listed: three entries, the second one sub/a.
C20_Witness ==
    /\ frontend = "cli" /\ op = "list" /\ pc = "done" /\ result = "list"
    /\ pwd = None
    /\ source.kind = "dir" /\ Len(source.files) = 3
    /\ destination.by = "standard" /\ destination.failures = 0
    /\ Len(listing) = 3
    /\ listing[2].filename = <<"sub", "a">>
    /\ listing[2].file_size = 7

\* C21: no archive handle outlives the operation that opened it: whenever
\* no operation is running, or one has returned (by whatever path: normal
\* end, early return, caught exception), no archive object is open; inside
\* an extraction loop exactly one is.
C21_NoHandleOutlivesOperation ==
    /\ handles \in {0, 1}
    /\ pc \in {"idle", "done"} => handles = 0
    /\ pc = "loop" => handles = 1

\* C21 witness: extract-selected opened the archive and returned from
\* inside the with block because no index was valid.
C21_Witness ==
    /\ op = "extract_selected" /\ pc = "done" /\ opened
    /\ Len(indices) > 0 /\ Len(work) = 0
    /\ result = "False"
    /\ handles = 0

\* C22: extract-all, extract-selected and create neither modify nor read
\* the session: every step of theirs leaves the three fields as they were,
\* what an extraction opens depends on its own path and destination, and a
\* member is extracted only if the password argument of the call (not the
\* password of the session) reads it.
C22_SessionUntouchedByExtractAndCreate ==
    [][/\ op' \in {"extract_all", "extract_selected", "create"} =>
              session' = session
       /\ (pc = "idle" /\ op' \in {"extract_all", "extract_selected"}) =>
              opened' = (create_directory(extract_to') /\ OpenZip(zip_path') = "ok")
       /\ (/\ op \in {"extract_all", "extract_selected"}
           /\ Len(log') > Len(log)
           /\ log'[Len(log) + 1].ev = "attempt") =>
              (log'[Len(log) + 1].y = 1 =>
                  ReadOk(At(archive, log'[Len(log) + 1].x), pwd))
      ]_vars

\* C22 witness: the session holds the listing made with the archive's
\* password; an extract-all called without password has failed on the
\* encrypted member and the session is still that listing.
C22_Witness ==
    /\ frontend = "cli" /\ op = "extract_all" /\ pc = "done"
    /\ pwd = None
    /\ current_zip_path = "sample.zip" /\ password = ArchivePassword
    /\ Len(current_zip_info) = Len(archive)
    /\ Len(Failed) = 1
    /\ \E i \in 1..Len(archive) : archive[i].kind = "enc"

\* C23: the compression ratio of an entry is exactly 0 when its
\* uncompressed size is 0, and otherwise the number
\* (1 - compressed/uncompressed) * 100, for all sizes; it is negative
\* exactly when the entry is stored larger than it is.
C23_CompressionRatio ==
    (op = "ratio" /\ pc = "done") =>
        LET e == listing[1]
        IN  /\ result.den > 0
            /\ e.file_size = 0 => result = [num |-> 0, den |-> 1]
            /\ e.file_size # 0 =>
                  /\ result.num * e.file_size
                        = (e.file_size - e.compress_size) * 100 * result.den
                  /\ (result.num < 0) = (e.compress_size > e.file_size)
            /\ (e.file_size = 100 /\ e.compress_size = 40) =>
                  result = [num |-> 60, den |-> 1]

\* C23 witness: an entry stored larger than it is, 4 raw / 8 stored, has
\* the ratio -100.
C23_Witness ==
    /\ op = "ratio" /\ pc = "done"
    /\ listing[1].file_size = 4 /\ listing[1].compress_size = 8
    /\ result = [num |-> -100, den |-> 1]

\* C24 (as claimed): in the window, the index sent to extract-selected for
\* a selected row names the archive member whose name the row displays,
\* also when the tree shows the result of a search.
C24_SentIndexIsDisplayedMember ==
    (frontend = "gui" /\ op = "extract_selected" /\ worker = "finished") =>
        \A k \in 1..Len(Events("sent")) :
           LET e == Events("sent")[k]
           IN  /\ e.x < Len(archive)
               /\ archive[e.x + 1].filename = e.y

\* C25: extract-selected returns success exactly when at least one selected
\* non-directory member was extracted, so a selection of directory entries
\* only, or one whose every file fails, returns failure; extract-all on an
\* archive without files returns success.
C25_SelectedSuccessNeedsAnExtraction ==
    /\ (ReaderRan("extract_selected") /\ pc = "done") =>
          /\ result = "True" <=> Len(Succeeded) > 0
          /\ extracted_count = Len(Succeeded)
    /\ (ReaderRan("extract_all") /\ pc = "done" /\ opened
         /\ FilePositions = {}) => result = "True"

\* C25 witness: a finished selection of in-range indices, all of them
\* directory entries, nothing attempted, reported as failure.
C25_Witness ==
    /\ ReaderRan("extract_selected") /\ pc = "done" /\ opened
    /\ Len(InRangeIndices) > 0 /\ Len(SelectedFiles) = 0
    /\ Len(Skips) = Len(InRangeIndices) /\ Len(Attempts) = 0
    /\ result = "False"

\* C26 (as claimed): when extract-all or extract-selected fails outright
\* (the archive is missing or is not a valid container, or the selection
\* has no valid index), no destination directory has been created and no
\* file has been written.
C26_OutrightFailureTouchesNothing ==
    (/\ ReaderRan("extract_all") \/ ReaderRan("extract_selected")
     /\ pc = "done" /\ result = "False"
     /\ \/ OpenZip(zip_path) # "ok"
        \/ op = "extract_selected" /\ Len(InRangeIndices) = 0) =>
        ~dir_created /\ disk = {}

\* No load_worker is between its start and its end.
LoadersQuiet == \A w \in Workers : loaders[w].pc \in {"none", "done"}

\* C27 (as claimed): in the window, once two concurrent load_zip_file
\* workers have both ended, the displayed contents and current_zip_path
\* refer to the same archive, and the path, the entries and the password of
\* the manager's session all come from one listing.
C27_LoadsLeaveOneArchive ==
    (frontend = "gui" /\ LoadersQuiet) =>
        /\ \/ ui_zip_path = None /\ zip_contents = <<>>
           \/ /\ ui_zip_path \in LoadPaths
              /\ \E pw \in {None, ArchivePassword} :
                    zip_contents = FileList(ArchiveAt(ui_zip_path), pw)
        /\ \/ current_zip_path = None
           \/ /\ current_zip_path \in LoadPaths
              /\ current_zip_info =
                    FileList(ArchiveAt(current_zip_path), password)

\* An extract_worker is between its start and its end.
Running(w) == extractors[w].pc = "running"

\* C28 (as claimed): in the window, also with two overlapping extractions,
\* a cancel request made while an extraction runs is not lost (the flag
\* stays set as long as a worker it was made to is running), and the
\* Cancel button is enabled only while some worker runs and stays enabled
\* while workers run and no cancel was requested.
C28_CancelKeptAndButtonFollowsWorkers ==
    frontend = "gui" =>
        /\ \A w \in Workers :
              (Running(w) /\ extractors[w].cancel_requested) =>
                  operation_cancelled
        /\ cancel_button = "normal" => \E w \in Workers : Running(w)
        /\ (/\ \E w \in Workers : Running(w)
            /\ \A w \in Workers : ~extractors[w].cancel_requested) =>
               cancel_button = "normal"

\* C29 (as claimed): in the window, an extraction started for the archive
\* that was loaded passes the reader the password the load listed it with.
C29_ExtractionUsesLoadPassword ==
    (/\ frontend = "gui" /\ op \in {"extract_all", "extract_selected"}
     /\ worker \in {"started", "finished"}
     /\ zip_path = current_zip_path) =>
        pwd = password

\* C30 (as claimed): every turn of the menu loop reaches the option prompt
\* (no turn fails before the choice is read), and the loop ends once option
\* 5 has been read.
C30_EveryTurnReachesPrompt ==
    (frontend = "cli" /\ menu_pc # "start") =>
        /\ menu_pc \in {"loop", "returned"}
        /\ running => prompts = iterations
        /\ choice = "5" => ~running
====
